---- MODULE Spec2Model ----
(***************************************************************************)
(* Model of the products API: the echo router of main (two protected       *)
(* route groups and two public routes), the authorization middleware, the  *)
(* five product handlers and Register, over the two tables products and    *)
(* users reached through GORM.                                             *)
(*                                                                         *)
(* A handler with one database call is one atomic step; UpdateProduct,     *)
(* whose First and Save are two database calls, is two steps, and other    *)
(* requests may run between them.  A step that answers leaves its response *)
(* in resp until Respond has written it out.                               *)
(*                                                                         *)
(* The product columns name, code, stock, description and status are all   *)
(* bound from the payload and stored in the same way; the model keeps one  *)
(* of them (Name).  The columns of gorm.Model kept are ID and DeletedAt    *)
(* (GORM soft-deletes a model that embeds gorm.Model).  Every ORM call may *)
(* be failed by the database (the input fail of the actions).              *)
(***************************************************************************)
EXTENDS Integers, Sequences, FiniteSets, TLC

(* ------------------------------ bounds -------------------------------- *)
\* product ids / values of the products id sequence that the model follows
MaxId == 2
\* values of the users id sequence that the model follows
MaxUserId == 3
\* UpdateProduct requests that may be between their First and their Save
MaxInflight == 1

Ids == 1..MaxId
Slots == 1..MaxInflight

(* --------------------------- status codes ----------------------------- *)
StatusOK == 200
StatusCreated == 201
StatusNoContent == 204
StatusBadRequest == 400
StatusUnauthorized == 401
StatusForbidden == 403
StatusNotFound == 404
StatusMethodNotAllowed == 405
StatusInternalServerError == 500

(* ------------------------------ tokens -------------------------------- *)
Roles == {"admin", "staff"}
Emails == {"a@x", "b@x"}

\* a request without an Authorization header; a response without a token
NoToken == [email |-> "", role |-> "", sig |-> "none", expired |-> FALSE]

\* the token issued for a user: signed, not expired; signing may fail
generateJWT(email, role, signErr) ==
    IF signErr THEN [err |-> TRUE, token |-> NoToken]
    ELSE [err |-> FALSE,
          token |-> [email |-> email, role |-> role, sig |-> "ok", expired |-> FALSE]]

\* the tokens a client may present: issued ones, expired ones, tampered ones, none
Tokens ==
    { [email |-> "a@x", role |-> r, sig |-> v[1], expired |-> v[2]] :
        r \in Roles, v \in {<<"ok", FALSE>>, <<"ok", TRUE>>, <<"bad", FALSE>>} }
      \cup {NoToken}

ValidToken(tok) == tok.sig = "ok" /\ ~tok.expired

\* the middleware's decision: next forwards to the handler, otherwise the
\* request is answered with status
IsAuthorized(role, tok) ==
    IF ~ValidToken(tok) THEN [next |-> FALSE, status |-> StatusUnauthorized]
    ELSE IF tok.role # role THEN [next |-> FALSE, status |-> StatusForbidden]
    ELSE [next |-> TRUE, status |-> 0]

(* ------------------------------ router -------------------------------- *)
Methods == {"GET", "POST", "PUT", "DELETE"}
Paths == {"/register", "/login", "/products", "/products/:id",
          "/staff/products", "/staff/products/:id"}

Route(m, p, mw, h) == [method |-> m, path |-> p, mw |-> mw, handler |-> h]

\* C1 mutant: the mutation routes registered on the staff group's middleware
RoutesStaffMutates ==
    { Route("POST", "/register", "", "Register"),
      Route("POST", "/login", "", "Login"),
      Route("GET", "/products", "admin", "GetProducts"),
      Route("GET", "/products/:id", "admin", "GetProduct"),
      Route("POST", "/products", "staff", "CreateProduct"),
      Route("PUT", "/products/:id", "staff", "UpdateProduct"),
      Route("DELETE", "/products/:id", "staff", "DeleteProduct"),
      Route("GET", "/staff/products", "staff", "GetProducts"),
      Route("GET", "/staff/products/:id", "staff", "GetProduct") }

\* C3 mutant: GET /products/:id registered on the echo instance, outside the group
RoutesUnprotectedGet ==
    { Route("POST", "/register", "", "Register"),
      Route("POST", "/login", "", "Login"),
      Route("GET", "/products", "admin", "GetProducts"),
      Route("GET", "/products/:id", "", "GetProduct"),
      Route("POST", "/products", "admin", "CreateProduct"),
      Route("PUT", "/products/:id", "admin", "UpdateProduct"),
      Route("DELETE", "/products/:id", "admin", "DeleteProduct"),
      Route("GET", "/staff/products", "staff", "GetProducts"),
      Route("GET", "/staff/products/:id", "staff", "GetProduct") }

\* C10 mutant: the staff group also routes DELETE
RoutesStaffDelete ==
    { Route("POST", "/register", "", "Register"),
      Route("POST", "/login", "", "Login"),
      Route("GET", "/products", "admin", "GetProducts"),
      Route("GET", "/products/:id", "admin", "GetProduct"),
      Route("POST", "/products", "admin", "CreateProduct"),
      Route("PUT", "/products/:id", "admin", "UpdateProduct"),
      Route("DELETE", "/products/:id", "admin", "DeleteProduct"),
      Route("GET", "/staff/products", "staff", "GetProducts"),
      Route("GET", "/staff/products/:id", "staff", "GetProduct"),
      Route("DELETE", "/staff/products/:id", "staff", "DeleteProduct") }

\* the route table main builds; mw is the role its group's middleware requires
Routes ==
    { Route("POST", "/register", "", "Register"),
      Route("POST", "/login", "", "Login"),
      Route("GET", "/products", "admin", "GetProducts"),
      Route("GET", "/products/:id", "admin", "GetProduct"),
      Route("POST", "/products", "admin", "CreateProduct"),
      Route("PUT", "/products/:id", "admin", "UpdateProduct"),
      Route("DELETE", "/products/:id", "admin", "DeleteProduct"),
      Route("GET", "/staff/products", "staff", "GetProducts"),
      Route("GET", "/staff/products/:id", "staff", "GetProduct") }

NoRoute == Route("", "", "", "none")

Dispatch(m, p) ==
    IF \E r \in Routes : r.method = m /\ r.path = p
    THEN CHOOSE r \in Routes : r.method = m /\ r.path = p
    ELSE NoRoute

\* the middleware chain of a route: a public route has none
Authorize(rt, tok) ==
    IF rt.mw = "" THEN [next |-> TRUE, status |-> 0] ELSE IsAuthorized(rt.mw, tok)

(* --------------------------- path parameter --------------------------- *)
Digits == {"0", "1", "2", "3", "4", "5", "6", "7", "8", "9"}

DigitVal(ch) ==
    CASE ch = "0" -> 0 [] ch = "1" -> 1 [] ch = "2" -> 2 [] ch = "3" -> 3
      [] ch = "4" -> 4 [] ch = "5" -> 5 [] ch = "6" -> 6 [] ch = "7" -> 7
      [] ch = "8" -> 8 [] ch = "9" -> 9

RECURSIVE ParseDigits(_, _)
ParseDigits(s, acc) ==
    IF s = <<>> THEN acc ELSE ParseDigits(Tail(s), acc * 10 + DigitVal(Head(s)))

\* strconv.Atoi: an optional sign, then one or more decimal digits
Atoi(s) ==
    LET signed == s # <<>> /\ Head(s) \in {"+", "-"}
        body == IF signed THEN Tail(s) ELSE s
    IN  IF body = <<>> \/ \E i \in 1..Len(body) : body[i] \notin Digits
        THEN [err |-> TRUE, n |-> 0]
        ELSE [err |-> FALSE,
              n |-> IF signed /\ Head(s) = "-" THEN 0 - ParseDigits(body, 0)
                    ELSE ParseDigits(body, 0)]

\* the :id path segments the model's clients send
Params == { <<"1">>, <<"0", "2">>, <<"-", "1">>, <<"1", "x">> }

(* ----------------------------- products ------------------------------- *)
NoRow == [Exists |-> FALSE, Name |-> "", DeletedAt |-> FALSE]
Row(name, del) == [Exists |-> TRUE, Name |-> name, DeletedAt |-> del]

\* a models.Product value held by a handler
Product(id, name, del) == [ID |-> id, Name |-> name, DeletedAt |-> del]
ZeroProduct == Product(0, "", FALSE)

\* the table at start: one seeded product, the id sequence past it
InitProducts == [i \in Ids |-> IF i = 1 THEN Row("seed", FALSE) ELSE NoRow]

Live(t, id) == id \in Ids /\ t[id].Exists /\ ~t[id].DeletedAt

\* request bodies: unbindable, or a JSON object with a name and possibly an
\* ID (-1: absent; an absent field leaves the bound struct as it is)
Absent == "<absent>"
Payloads == [ok : {TRUE}, ID : {-1} \cup (0..MaxId), Name : {"a"}]
              \cup {[ok |-> FALSE, ID |-> -1, Name |-> Absent]}

\* c.Bind(&product): the body's fields overwrite the struct's
Bind(product, payload) ==
    Product(IF payload.ID = -1 THEN product.ID ELSE payload.ID,
            IF payload.Name = Absent THEN product.Name ELSE payload.Name,
            product.DeletedAt)

(* An ORM call returns [err, t, seq, ...]: err is "none", "notfound"       *)
(* (gorm.ErrRecordNotFound) or "db" (any other error of the database);     *)
(* fail is the environment's choice that the database fails this call.     *)

\* DB.Find(&products): the rows that are not soft-deleted
DBFind(t, fail) ==
    IF fail THEN [err |-> "db", ids |-> {}]
    ELSE [err |-> "none", ids |-> {i \in Ids : Live(t, i)}]

\* DB.First(&product, id)
DBFirst(t, id, fail) ==
    IF fail THEN [err |-> "db", product |-> ZeroProduct]
    ELSE IF Live(t, id) THEN [err |-> "none", product |-> Product(id, t[id].Name, FALSE)]
    ELSE [err |-> "notfound", product |-> ZeroProduct]

\* DB.Create(&product): INSERT; a zero ID takes the next value of the id
\* sequence (which advances even when the insert fails on the key)
DBCreate(t, seq, product, fail) ==
    LET id == IF product.ID = 0 THEN seq ELSE product.ID
        seq2 == IF product.ID = 0 THEN seq + 1 ELSE seq
    IN  IF fail THEN [err |-> "db", t |-> t, seq |-> seq, id |-> 0]
        ELSE IF t[id].Exists THEN [err |-> "db", t |-> t, seq |-> seq2, id |-> 0]
        ELSE [err |-> "none", seq |-> seq2, id |-> id,
              t |-> [t EXCEPT ![id] = Row(product.Name, product.DeletedAt)]]

\* DB.Save(&product): Create when the ID is zero; otherwise UPDATE of the
\* live row, and when that affects no row INSERT .. ON CONFLICT (id) DO UPDATE
DBSave(t, seq, product, fail) ==
    IF product.ID = 0 THEN DBCreate(t, seq, product, fail)
    ELSE IF fail THEN [err |-> "db", t |-> t, seq |-> seq, id |-> 0]
    ELSE IF Live(t, product.ID)
    THEN \* the UPDATE affected the row
         [err |-> "none", seq |-> seq, id |-> product.ID,
          t |-> [t EXCEPT ![product.ID] = Row(product.Name, product.DeletedAt)]]
    ELSE \* no row affected: the upsert inserts the row, or overwrites the
         \* soft-deleted row that holds the key, deleted_at included
         [err |-> "none", seq |-> seq, id |-> product.ID,
          t |-> [t EXCEPT ![product.ID] = Row(product.Name, product.DeletedAt)]]

\* C5 mutant: a delete that affects no row reported as an error
DBDeleteStrict(t, id, fail) ==
    IF fail \/ ~Live(t, id) THEN [err |-> "db", t |-> t, rows |-> 0]
    ELSE [err |-> "none", rows |-> 1, t |-> [t EXCEPT ![id].DeletedAt = TRUE]]

\* DB.Delete(&models.Product{}, id): UPDATE .. SET deleted_at WHERE id = ?
\* AND deleted_at IS NULL; affecting no row is not an error
DBDelete(t, id, fail) ==
    IF fail THEN [err |-> "db", t |-> t, rows |-> 0]
    ELSE IF Live(t, id)
         THEN [err |-> "none", rows |-> 1, t |-> [t EXCEPT ![id].DeletedAt = TRUE]]
         ELSE [err |-> "none", rows |-> 0, t |-> t]

(* ------------------------- product handlers --------------------------- *)
\* what a handler returns to the action that runs it: the response's status,
\* the number of ORM calls made, the table and id sequence it leaves, and
\* which of its branches was taken
Res(status, ops, t, seq) ==
    [status |-> status, ops |-> ops, t |-> t, seq |-> seq, id |-> -1,
     idErr |-> FALSE, bindErr |-> FALSE, dbErr |-> FALSE, notFound |-> FALSE,
     ids |-> {}, product |-> ZeroProduct, rows |-> 0, next |-> FALSE]

GetProducts(t, seq, fail) ==
    LET r == DBFind(t, fail)
    IN  IF r.err # "none"
        THEN [Res(StatusInternalServerError, 1, t, seq) EXCEPT !.dbErr = TRUE]
        ELSE [Res(StatusOK, 1, t, seq) EXCEPT !.ids = r.ids]

GetProduct(t, seq, param, fail) ==
    LET a == Atoi(param)
        r == DBFirst(t, a.n, fail)
    IN  IF a.err THEN [Res(StatusBadRequest, 0, t, seq) EXCEPT !.idErr = TRUE]
        ELSE IF r.err # "none"
        THEN [Res(StatusNotFound, 1, t, seq) EXCEPT
                !.id = a.n, !.dbErr = (r.err = "db"), !.notFound = (r.err = "notfound")]
        ELSE [Res(StatusOK, 1, t, seq) EXCEPT !.id = a.n, !.product = r.product]

CreateProduct(t, seq, payload, fail) ==
    LET product == Bind(ZeroProduct, payload)
        r == DBCreate(t, seq, product, fail)
    IN  IF ~payload.ok THEN [Res(StatusBadRequest, 0, t, seq) EXCEPT !.bindErr = TRUE]
        ELSE IF r.err # "none"
        THEN [Res(StatusInternalServerError, 1, r.t, r.seq) EXCEPT !.dbErr = TRUE]
        ELSE [Res(StatusCreated, 1, r.t, r.seq) EXCEPT
                !.product = Product(r.id, product.Name, product.DeletedAt)]

\* UpdateProduct up to and including its DB.First
UpdateProductFirst(t, seq, param, fail) ==
    LET a == Atoi(param)
        r == DBFirst(t, a.n, fail)
    IN  IF a.err THEN [Res(StatusBadRequest, 0, t, seq) EXCEPT !.idErr = TRUE]
        ELSE IF r.err # "none"
        THEN [Res(StatusNotFound, 1, t, seq) EXCEPT
                !.id = a.n, !.dbErr = (r.err = "db"), !.notFound = (r.err = "notfound")]
        ELSE \* the handler goes on to c.Bind
             [Res(0, 1, t, seq) EXCEPT !.id = a.n, !.product = r.product, !.next = TRUE]

\* UpdateProduct from its c.Bind on: product is what First read, id the path id
UpdateProductSave(t, seq, id, read, payload, fail) ==
    LET product == Bind(read, payload)
        r == DBSave(t, seq, product, fail)
    IN  IF ~payload.ok
        THEN [Res(StatusBadRequest, 1, t, seq) EXCEPT !.id = id, !.bindErr = TRUE]
        ELSE IF r.err # "none"
        THEN [Res(StatusInternalServerError, 2, r.t, r.seq) EXCEPT
                !.id = id, !.dbErr = TRUE]
        ELSE [Res(StatusOK, 2, r.t, r.seq) EXCEPT
                !.id = id, !.product = Product(r.id, product.Name, product.DeletedAt)]

\* C7 mutant: a DeleteProduct that looks the record up before deleting it
DeleteProductChecked(t, seq, param, fail) ==
    LET a == Atoi(param)
        f == DBFirst(t, a.n, fail)
        r == DBDelete(t, a.n, fail)
    IN  IF a.err THEN [Res(StatusBadRequest, 0, t, seq) EXCEPT !.idErr = TRUE]
        ELSE IF f.err # "none"
        THEN [Res(StatusNotFound, 1, t, seq) EXCEPT
                !.id = a.n, !.dbErr = (f.err = "db"), !.notFound = (f.err = "notfound")]
        ELSE [Res(StatusNoContent, 2, r.t, seq) EXCEPT !.id = a.n, !.rows = r.rows]

DeleteProduct(t, seq, param, fail) ==
    LET a == Atoi(param)
        r == DBDelete(t, a.n, fail)
    IN  IF a.err THEN [Res(StatusBadRequest, 0, t, seq) EXCEPT !.idErr = TRUE]
        ELSE IF r.err # "none"
        THEN [Res(StatusInternalServerError, 1, r.t, seq) EXCEPT
                !.id = a.n, !.dbErr = TRUE]
        ELSE [Res(StatusNoContent, 1, r.t, seq) EXCEPT !.id = a.n, !.rows = r.rows]

(* ------------------------------- users -------------------------------- *)
Passwords == {"p", "q"}

User(id, email, password, role) ==
    [ID |-> id, Email |-> email, Password |-> password, Role |-> role]

\* bcrypt.GenerateFromPassword; its error is dropped and leaves an empty hash
HashPassword(password, hashErr) == IF hashErr THEN "" ELSE "bcrypt:" \o password

\* C6 mutant: the users table without its unique index on email
DBCreateUserNoUnique(us, seq, user, fail) ==
    IF fail THEN [err |-> "db", us |-> us, seq |-> seq]
    ELSE [err |-> "none", seq |-> seq + 1,
          us |-> us \cup {User(seq, user.Email, user.Password, user.Role)}]

\* DB.Create(&user): the users table has a unique index on email; the id
\* sequence advances even when the insert is refused
DBCreateUser(us, seq, user, fail) ==
    IF fail THEN [err |-> "db", us |-> us, seq |-> seq]
    ELSE IF \E u \in us : u.Email = user.Email
    THEN [err |-> "db", us |-> us, seq |-> seq + 1]
    ELSE [err |-> "none", seq |-> seq + 1,
          us |-> us \cup {User(seq, user.Email, user.Password, user.Role)}]

Register(us, seq, email, password, role, hashErr, fail, signErr) ==
    LET user == User(0, email, HashPassword(password, hashErr), role)
        r == DBCreateUser(us, seq, user, fail)
        j == generateJWT(user.Email, user.Role, signErr)
    IN  IF r.err # "none"
        THEN [status |-> StatusInternalServerError, us |-> r.us, seq |-> r.seq,
              token |-> NoToken, dbErr |-> TRUE, signErr |-> FALSE]
        ELSE IF j.err
        THEN [status |-> StatusInternalServerError, us |-> r.us, seq |-> r.seq,
              token |-> NoToken, dbErr |-> FALSE, signErr |-> TRUE]
        ELSE [status |-> StatusCreated, us |-> r.us, seq |-> r.seq,
              token |-> j.token, dbErr |-> FALSE, signErr |-> FALSE]

\* POST /login: credentials -> 200 with a token, or 401, or 500
Login(us, email, password, fail) ==
    IF fail
    THEN [status |-> StatusInternalServerError, token |-> NoToken, dbErr |-> TRUE]
    ELSE IF \E u \in us : u.Email = email /\ u.Password = HashPassword(password, FALSE)
    THEN LET u == CHOOSE u \in us : u.Email = email /\ u.Password = HashPassword(password, FALSE)
         IN  [status |-> StatusOK, token |-> generateJWT(u.Email, u.Role, FALSE).token,
              dbErr |-> FALSE]
    ELSE [status |-> StatusUnauthorized, token |-> NoToken, dbErr |-> FALSE]

(* ------------------------------- state -------------------------------- *)
VARIABLES
    products,    \* the products table: id -> row
    nextId,      \* the next value of the products id sequence
    users,       \* the users table: a set of rows
    nextUserId,  \* the next value of the users id sequence
    pending,     \* UpdateProduct requests between their First and their Save
    resp,        \* the response being written, with what its request did
    deletedOk,   \* history: ids of products a DeleteProduct removed with 204
    onlyStaff    \* history: every token presented so far was a valid staff token

vars == <<products, nextId, users, nextUserId, pending, resp, deletedOk, onlyStaff>>

NoReq ==
    [active |-> FALSE, method |-> "", path |-> "", tok |-> NoToken, id |-> -1,
     product |-> ZeroProduct]

\* a response with its request (method, path, token), the handler the router
\* invoked for it ("none" if none) and what the handler did; Resp0: none
Resp0 ==
    [method |-> "", path |-> "", tok |-> NoToken, handler |-> "none", status |-> 0,
     ops |-> 0, id |-> -1, idErr |-> FALSE, bindErr |-> FALSE, dbErr |-> FALSE,
     notFound |-> FALSE, existed |-> FALSE, touched |-> {}, stale |-> FALSE,
     token |-> NoToken, email |-> "", role |-> "", emailExisted |-> FALSE,
     added |-> 0, changed |-> FALSE, signErr |-> FALSE, dbDown |-> FALSE]

Touched(t, t2) == {i \in Ids : t[i] # t2[i]}

StaffToken(tok) == ValidToken(tok) /\ tok.role = "staff"
AdminToken(tok) == ValidToken(tok) /\ tok.role = "admin"

\* the record of a product handler's run r for the request (m, p, tok);
\* fail: the database failed the call, as opposed to refusing it
ProductResp(m, p, tok, h, r, stale, fail) ==
    [Resp0 EXCEPT
        !.method = m, !.path = p, !.tok = tok, !.handler = h, !.status = r.status,
        !.ops = r.ops, !.id = r.id, !.idErr = r.idErr, !.bindErr = r.bindErr,
        !.dbErr = r.dbErr, !.notFound = r.notFound, !.existed = Live(products, r.id),
        !.touched = Touched(products, r.t), !.stale = stale,
        !.dbDown = (fail /\ r.dbErr)]

Init ==
    /\ products = InitProducts
    /\ nextId = 2
    /\ users = {}
    /\ nextUserId = 1
    /\ pending = [s \in Slots |-> NoReq]
    /\ resp = Resp0
    /\ deletedOk = {}
    /\ onlyStaff = TRUE

(* ------------------------------ actions ------------------------------- *)
\* a request to a method and path main registers nothing for
NotRouted ==
    \E m \in Methods, p \in Paths, st \in {StatusNotFound, StatusMethodNotAllowed} :
        /\ resp = Resp0
        /\ Dispatch(m, p) = NoRoute
        /\ resp' = [Resp0 EXCEPT !.method = m, !.path = p, !.status = st]
        /\ UNCHANGED <<products, nextId, users, nextUserId, pending, deletedOk, onlyStaff>>

\* the middleware rejects the request: the handler is not called
Rejected ==
    \E rt \in Routes, tok \in Tokens :
        /\ resp = Resp0
        /\ ~Authorize(rt, tok).next
        /\ resp' = [Resp0 EXCEPT !.method = rt.method, !.path = rt.path, !.tok = tok,
                                 !.status = Authorize(rt, tok).status]
        /\ onlyStaff' = (onlyStaff /\ StaffToken(tok))
        /\ UNCHANGED <<products, nextId, users, nextUserId, pending, deletedOk>>

DoGetProducts ==
    \E rt \in Routes, tok \in Tokens, fail \in BOOLEAN :
        LET r == GetProducts(products, nextId, fail) IN
        /\ resp = Resp0
        /\ rt.handler = "GetProducts"
        /\ Authorize(rt, tok).next
        /\ resp' = ProductResp(rt.method, rt.path, tok, "GetProducts", r, r.ids \cap deletedOk # {}, fail)
        /\ onlyStaff' = (onlyStaff /\ StaffToken(tok))
        /\ UNCHANGED <<products, nextId, users, nextUserId, pending, deletedOk>>

DoGetProduct ==
    \E rt \in Routes, tok \in Tokens, param \in Params, fail \in BOOLEAN :
        LET r == GetProduct(products, nextId, param, fail) IN
        /\ resp = Resp0
        /\ rt.handler = "GetProduct"
        /\ Authorize(rt, tok).next
        /\ resp' = ProductResp(rt.method, rt.path, tok, "GetProduct", r,
                               r.status = StatusOK /\ r.id \in deletedOk, fail)
        /\ onlyStaff' = (onlyStaff /\ StaffToken(tok))
        /\ UNCHANGED <<products, nextId, users, nextUserId, pending, deletedOk>>

DoCreateProduct ==
    \E rt \in Routes, tok \in Tokens, payload \in Payloads, fail \in BOOLEAN :
        LET r == CreateProduct(products, nextId, payload, fail) IN
        /\ resp = Resp0
        /\ rt.handler = "CreateProduct"
        /\ Authorize(rt, tok).next
        /\ (payload.ok /\ Bind(ZeroProduct, payload).ID = 0) => nextId <= MaxId
        /\ products' = r.t
        /\ nextId' = r.seq
        /\ resp' = ProductResp(rt.method, rt.path, tok, "CreateProduct", r, FALSE, fail)
        /\ onlyStaff' = (onlyStaff /\ StaffToken(tok))
        /\ UNCHANGED <<users, nextUserId, pending, deletedOk>>

\* UpdateProduct, first step: the id is parsed and the record read
DoUpdateProductFirst ==
    \E rt \in Routes, tok \in Tokens, param \in Params, fail \in BOOLEAN :
        LET r == UpdateProductFirst(products, nextId, param, fail) IN
        /\ resp = Resp0
        /\ rt.handler = "UpdateProduct"
        /\ Authorize(rt, tok).next
        /\ IF r.next
           THEN \E s \in Slots :
                  /\ ~pending[s].active
                  /\ pending' = [pending EXCEPT ![s] =
                        [active |-> TRUE, method |-> rt.method, path |-> rt.path,
                         tok |-> tok, id |-> r.id, product |-> r.product]]
                  /\ UNCHANGED resp
           ELSE /\ resp' = ProductResp(rt.method, rt.path, tok, "UpdateProduct", r, FALSE, fail)
                /\ UNCHANGED pending
        /\ onlyStaff' = (onlyStaff /\ StaffToken(tok))
        /\ UNCHANGED <<products, nextId, users, nextUserId, deletedOk>>

\* UpdateProduct, second step: the body is bound over the record and saved
DoUpdateProductSave ==
    \E s \in Slots, payload \in Payloads, fail \in BOOLEAN :
        LET q == pending[s]
            r == UpdateProductSave(products, nextId, q.id, q.product, payload, fail) IN
        /\ resp = Resp0
        /\ q.active
        /\ (payload.ok /\ Bind(q.product, payload).ID = 0) => nextId <= MaxId
        /\ products' = r.t
        /\ nextId' = r.seq
        /\ pending' = [pending EXCEPT ![s] = NoReq]
        /\ resp' = ProductResp(q.method, q.path, q.tok, "UpdateProduct", r, FALSE, fail)
        /\ UNCHANGED <<users, nextUserId, deletedOk, onlyStaff>>

DoDeleteProduct ==
    \E rt \in Routes, tok \in Tokens, param \in Params, fail \in BOOLEAN :
        LET r == DeleteProduct(products, nextId, param, fail) IN
        /\ resp = Resp0
        /\ rt.handler = "DeleteProduct"
        /\ Authorize(rt, tok).next
        /\ products' = r.t
        /\ deletedOk' = IF r.status = StatusNoContent /\ r.rows = 1
                        THEN deletedOk \cup {r.id} ELSE deletedOk
        /\ resp' = ProductResp(rt.method, rt.path, tok, "DeleteProduct", r, FALSE, fail)
        /\ onlyStaff' = (onlyStaff /\ StaffToken(tok))
        /\ UNCHANGED <<nextId, users, nextUserId, pending>>

DoRegister ==
    \E rt \in Routes, email \in Emails, password \in Passwords, role \in Roles,
       hashErr \in BOOLEAN, fail \in BOOLEAN, signErr \in BOOLEAN :
        LET r == Register(users, nextUserId, email, password, role, hashErr, fail, signErr) IN
        /\ resp = Resp0
        /\ rt.handler = "Register"
        /\ Authorize(rt, NoToken).next
        /\ nextUserId <= MaxUserId
        /\ users' = r.us
        /\ nextUserId' = r.seq
        /\ resp' = [Resp0 EXCEPT
                      !.method = rt.method, !.path = rt.path, !.handler = "Register",
                      !.status = r.status, !.ops = 1, !.dbErr = fail,
                      !.signErr = r.signErr,
                      !.token = r.token, !.email = email, !.role = role,
                      !.emailExisted = (\E u \in users : u.Email = email),
                      !.added = Cardinality(r.us) - Cardinality(users),
                      !.changed = (r.us # users)]
        /\ UNCHANGED <<products, nextId, pending, deletedOk, onlyStaff>>

DoLogin ==
    \E rt \in Routes, email \in Emails, password \in Passwords, fail \in BOOLEAN :
        LET r == Login(users, email, password, fail) IN
        /\ resp = Resp0
        /\ rt.handler = "Login"
        /\ Authorize(rt, NoToken).next
        /\ resp' = [Resp0 EXCEPT
                      !.method = rt.method, !.path = rt.path, !.handler = "Login",
                      !.status = r.status, !.ops = 1, !.dbErr = fail,
                      !.token = r.token, !.email = email]
        /\ UNCHANGED <<products, nextId, users, nextUserId, pending, deletedOk, onlyStaff>>

\* the response is written to the client and its request is over
Respond ==
    /\ resp # Resp0
    /\ resp' = Resp0
    /\ UNCHANGED <<products, nextId, users, nextUserId, pending, deletedOk, onlyStaff>>

\* the requests to the product routes
NextProducts ==
    \/ NotRouted
    \/ Rejected
    \/ DoGetProducts
    \/ DoGetProduct
    \/ DoCreateProduct
    \/ DoUpdateProductFirst
    \/ DoUpdateProductSave
    \/ DoDeleteProduct
    \/ Respond

\* the requests to the public routes
NextUsers ==
    \/ DoRegister
    \/ DoLogin
    \/ Respond

Next == NextProducts \/ NextUsers

Spec == Init /\ [][Next]_vars

(* No handler reads or writes both tables, so the product routes and the    *)
(* public routes are also checked each on their own.                        *)
SpecProducts == Init /\ [][NextProducts]_vars
SpecUsers == Init /\ [][NextUsers]_vars

(* ------------------------------ claims -------------------------------- *)
ProductHandlers ==
    {"GetProducts", "GetProduct", "CreateProduct", "UpdateProduct", "DeleteProduct"}

\* the step wrote a response of a product handler
Completed == resp.handler \in ProductHandlers /\ resp.status # 0

Routed == Dispatch(resp.method, resp.path) # NoRoute

MutationRequest ==
    \/ resp.method = "POST" /\ resp.path = "/products"
    \/ resp.method = "PUT" /\ resp.path = "/products/:id"
    \/ resp.method = "DELETE" /\ resp.path = "/products/:id"

ProtectedPaths ==
    {"/products", "/products/:id", "/staff/products", "/staff/products/:id"}

\* C1: on POST /products, PUT /products/:id and DELETE /products/:id a valid
\* admin token reaches the route's handler and a valid staff token is answered
\* 403 without any handler running; on GET /staff/products and
\* GET /staff/products/:id the valid staff token reaches the handler.
C1_AdminMutatesStaffReads ==
    /\ (MutationRequest /\ AdminToken(resp.tok)) =>
          /\ resp.handler \in {"CreateProduct", "UpdateProduct", "DeleteProduct"}
          /\ resp.handler = Dispatch(resp.method, resp.path).handler
    /\ (MutationRequest /\ StaffToken(resp.tok)) =>
          /\ resp.status = StatusForbidden
          /\ resp.handler = "none"
    /\ (resp.method = "GET" /\ resp.path = "/staff/products" /\ StaffToken(resp.tok)) =>
          resp.handler = "GetProducts"
    /\ (resp.method = "GET" /\ resp.path = "/staff/products/:id" /\ StaffToken(resp.tok)) =>
          resp.handler = "GetProduct"

\* C1 witness: a staff token was refused on DELETE /products/:id
C1_Witness ==
    /\ resp.method = "DELETE" /\ resp.path = "/products/:id"
    /\ StaffToken(resp.tok)
    /\ resp.status = StatusForbidden

\* C2 (as claimed): GET /products and GET /products/:id forward a valid staff
\* token and a valid admin token alike to GetProducts / GetProduct.
C2_GetOpenToBothRoles ==
    (resp.method = "GET" /\ resp.path \in {"/products", "/products/:id"}
       /\ (StaffToken(resp.tok) \/ AdminToken(resp.tok))) =>
        resp.handler = (IF resp.path = "/products" THEN "GetProducts" ELSE "GetProduct")

\* C3: on the two protected groups no request with an expired, tampered or
\* missing token reaches a handler, whatever its method, its claimed role and
\* the requests before it (a routed one is answered 401); the only routes
\* without the middleware are POST /register and POST /login.
C3_UnverifiedNeverReachesHandler ==
    /\ (resp.path \in ProtectedPaths /\ ~ValidToken(resp.tok)) =>
          /\ resp.handler = "none"
          /\ Routed => resp.status = StatusUnauthorized
    /\ (resp.handler # "none" /\ ~ValidToken(resp.tok)) =>
          resp.path \in {"/register", "/login"}
    /\ \A r \in Routes : (r.mw = "") <=> (r.path \in {"/register", "/login"})
    /\ \A r \in Routes : r.path \in ProtectedPaths \/ r.path \in {"/register", "/login"}

\* C3 witness: after the table has been changed by earlier requests, an expired
\* admin token is refused on POST /products
C3_Witness ==
    /\ products # InitProducts
    /\ resp.method = "POST" /\ resp.path = "/products"
    /\ resp.tok.role = "admin" /\ resp.tok.expired
    /\ resp.status = StatusUnauthorized /\ resp.handler = "none"

\* C4 (as claimed): a non-integer id or an unbindable payload gives 400, a
\* lookup that finds no record gives 404, a persistence failure gives 500 in
\* every handler, and success gives 200, 201 (CreateProduct) or 204
\* (DeleteProduct).
C4_StatusTranslation ==
    Completed =>
        /\ (resp.idErr \/ resp.bindErr) => resp.status = StatusBadRequest
        /\ resp.notFound => resp.status = StatusNotFound
        /\ resp.dbErr => resp.status = StatusInternalServerError
        /\ ~(resp.idErr \/ resp.bindErr \/ resp.notFound \/ resp.dbErr) =>
              resp.status = (CASE resp.handler = "CreateProduct" -> StatusCreated
                               [] resp.handler = "DeleteProduct" -> StatusNoContent
                               [] OTHER -> StatusOK)

\* C5 (as claimed): DeleteProduct with an integer id of no existing product
\* answers 500 and leaves the table unchanged.
C5_DeleteMissingIs500 ==
    (Completed /\ resp.handler = "DeleteProduct" /\ ~resp.idErr /\ ~resp.existed) =>
        /\ resp.status = StatusInternalServerError
        /\ resp.touched = {}

\* C5 (amended): DeleteProduct with an integer id of no existing product
\* leaves the table unchanged and answers 204, or 500 when the database
\* itself reports an error.
C5_DeleteMissingIs204 ==
    (Completed /\ resp.handler = "DeleteProduct" /\ ~resp.idErr /\ ~resp.existed) =>
        /\ resp.status = (IF resp.dbDown THEN StatusInternalServerError ELSE StatusNoContent)
        /\ resp.touched = {}

\* C5 witness: a delete of an id without a product answered 204
C5_Witness ==
    /\ resp.handler = "DeleteProduct" /\ ~resp.idErr /\ ~resp.existed
    /\ resp.status = StatusNoContent

NoSharedEmail == \A u \in users, v \in users : u.Email = v.Email => u = v

\* C6 (as claimed): Register with a new email creates exactly one user and
\* answers 201 with a token of that email and role; with an email already in
\* the table it answers 500 without a token and leaves the table unchanged;
\* no two users ever share an email.
C6_RegisterAsClaimed ==
    /\ resp.handler = "Register" =>
          /\ ~resp.emailExisted =>
                /\ resp.status = StatusCreated /\ resp.added = 1
                /\ ValidToken(resp.token)
                /\ resp.token.email = resp.email /\ resp.token.role = resp.role
          /\ resp.emailExisted =>
                /\ resp.status = StatusInternalServerError
                /\ resp.token = NoToken /\ ~resp.changed
    /\ NoSharedEmail

\* C6 (amended): as claimed when the insert is not failed by the database for
\* another reason and the token is signed; a failed insert answers 500 without
\* a token and leaves the table unchanged; a failed signing answers 500
\* without a token after the user has been created.
C6_Register ==
    /\ resp.handler = "Register" =>
          /\ (~resp.emailExisted /\ ~resp.dbErr /\ ~resp.signErr) =>
                /\ resp.status = StatusCreated /\ resp.added = 1
                /\ ValidToken(resp.token)
                /\ resp.token.email = resp.email /\ resp.token.role = resp.role
          /\ (~resp.emailExisted /\ ~resp.dbErr /\ resp.signErr) =>
                /\ resp.status = StatusInternalServerError /\ resp.added = 1
                /\ resp.token = NoToken
          /\ (resp.emailExisted \/ resp.dbErr) =>
                /\ resp.status = StatusInternalServerError
                /\ resp.token = NoToken /\ ~resp.changed
    /\ NoSharedEmail

\* C6 witness: a Register with an email already in the table was refused
C6_Witness ==
    /\ resp.handler = "Register" /\ resp.emailExisted /\ ~resp.dbErr
    /\ resp.status = StatusInternalServerError
    /\ Cardinality(users) = 2

\* C7 (as claimed): every product request that gets past the parsing of its
\* input makes exactly one ORM call.
C7_ExactlyOneOrmCall ==
    (Completed /\ resp.status # StatusBadRequest) => resp.ops = 1

\* C7 (amended): GetProducts, GetProduct, CreateProduct and DeleteProduct make
\* one ORM call (none when the id or the payload is refused); UpdateProduct
\* makes two, First and then Save, whenever the record is found and the
\* payload binds, and one otherwise (none when the id is refused).
C7_OrmCallsPerRequest ==
    Completed =>
        IF resp.handler = "UpdateProduct"
        THEN resp.ops = (IF resp.idErr THEN 0
                         ELSE IF resp.status \in {StatusNotFound, StatusBadRequest} THEN 1
                         ELSE 2)
        ELSE resp.ops = (IF resp.idErr \/ resp.bindErr THEN 0 ELSE 1)

\* C7 witness: an UpdateProduct answered 200 after its two calls, and the
\* record it saved is not the one the path names (another request ran between)
C7_Witness ==
    /\ resp.handler = "UpdateProduct" /\ resp.status = StatusOK /\ resp.ops = 2
    /\ ~resp.existed

\* C8 (as claimed): once a DeleteProduct of an existing product has answered
\* 204, no GetProduct of that id answers 200 and no GetProducts lists it.
C8_DeletedStaysDeleted == ~resp.stale

\* C9 (as claimed): UpdateProduct changes no row but the one of the path id
\* and creates none.
C9_UpdateTouchesOnlyPathId ==
    (Completed /\ resp.handler = "UpdateProduct") => resp.touched \subseteq {resp.id}

\* C10: as long as every token presented has been a valid staff token, the
\* products table is the initial one.
C10_StaffNeverMutates == onlyStaff => products = InitProducts

\* C10 witness: only staff tokens so far, the last one on a route that answered
C10_Witness ==
    /\ onlyStaff
    /\ StaffToken(resp.tok)
    /\ resp.handler = "GetProduct" /\ resp.status = StatusOK

====
